---- MODULE Spec2Model ----
(***************************************************************************)
(* Model of the cake shop backend (src/main.py): the in-memory catalog     *)
(* cakes_db guarded by _db_lock, the CRUD request handlers, the chatbot    *)
(* handler with its substring matcher, and the Gemini fallback client.     *)
(*                                                                         *)
(* Python strings that the code inspects (names, chat messages, model      *)
(* replies) are sequences of one-character strings, so that lower(),       *)
(* strip() and the substring test `a in b` are computed, not assumed.      *)
(* Cyrillic literals of the source are written in Latin transliteration.   *)
(* Prices are integers (the code never does arithmetic on them).           *)
(***************************************************************************)
EXTENDS Integers, Sequences, FiniteSets, TLC

\* ------------------------------------------------------------------ bounds
\* Total number of requests issued in one run.
MaxRequests == 3
\* Path parameter cake_id ranges over 1..MaxCakeId.
MaxCakeId == 3

\* Request threads. FastAPI runs the sync handlers in a thread pool and the
\* async chatbot handler on the event loop thread.
Procs == {1, 2, 3}
\* Threads used by the fully concurrent specification.
ConcProcs == {1, 2}
\* The single thread of the sequential specifications.
SeqProc == 1

\* ------------------------------------------------------------ Python values
\* Python's None (in a slot that otherwise holds an opaque string).
None == "None"

\* str.lower() on the characters the model uses (ASCII letters).
UpperLetters == <<"A","B","C","D","E","F","G","H","I","J","K","L","M",
                  "N","O","P","Q","R","S","T","U","V","W","X","Y","Z">>
LowerLetters == <<"a","b","c","d","e","f","g","h","i","j","k","l","m",
                  "n","o","p","q","r","s","t","u","v","w","x","y","z">>

LowerChar(c) ==
    IF \E k \in 1..Len(UpperLetters) : UpperLetters[k] = c
    THEN LowerLetters[CHOOSE k \in 1..Len(UpperLetters) : UpperLetters[k] = c]
    ELSE c

lower(s) == [k \in 1..Len(s) |-> LowerChar(s[k])]

\* Characters str.strip() removes: those for which str.isspace() is true.
\* The ones without a TLA+ escape are written as their Python escapes.
Whitespace ==
    { " ", "\t", "\n", "\r", "\f", "\\v",
      "\\x1c", "\\x1d", "\\x1e", "\\x1f", "\\x85", "\\xa0",
      "\\u1680", "\\u2000", "\\u2001", "\\u2002", "\\u2003", "\\u2004",
      "\\u2005", "\\u2006", "\\u2007", "\\u2008", "\\u2009", "\\u200a",
      "\\u2028", "\\u2029", "\\u202f", "\\u205f", "\\u3000" }

RECURSIVE lstrip(_)
lstrip(s) ==
    IF s # <<>> /\ Head(s) \in Whitespace THEN lstrip(Tail(s)) ELSE s

RECURSIVE rstrip(_)
rstrip(s) ==
    IF s # <<>> /\ s[Len(s)] \in Whitespace
    THEN rstrip(SubSeq(s, 1, Len(s) - 1))
    ELSE s

strip(s) == rstrip(lstrip(s))

\* Python's `a in b` for strings: a is a contiguous substring of b.
IsSubstring(a, b) ==
    \E k \in 0..(Len(b) - Len(a)) : SubSeq(b, k + 1, k + Len(a)) = a

\* --------------------------------------------------------------- constants
Medovik == <<"M","e","d","o","v","i","k">>
MolochnayaDevochka ==
    <<"M","o","l","o","c","h","n","a","y","a"," ","d","e","v","o","c","h","k","a">>

\* The initial contents of cakes_db.
InitialCakes ==
    << [id |-> 1, name |-> Medovik, description |-> "Tort s medom",
        price |-> 5500, stock |-> 4],
       [id |-> 2, name |-> MolochnayaDevochka,
        description |-> "Nezhnyi molochnyi tort",
        price |-> 6000, stock |-> 3] >>

CANDIDATE_MODELS == <<"gemini-1.5-flash", "gemini-1.5-pro", "gemini-1.0">>

\* Request bodies accepted as a Cake: the fields carry no validators, so a
\* name ending in a space, an empty name, no description, and negative
\* numbers are accepted.
CakeInputs ==
    { [name |-> <<"I", " ">>, description |-> "Medovyi tort so smetannym kremom",
       price |-> 4500, stock |-> 5],
      [name |-> <<>>, description |-> None, price |-> -1, stock |-> -1] }

CakeIds == 1..MaxCakeId

\* The character sequence of a chat message is inspected; the fixed texts
\* the code only passes along are kept as one chunk each.
AI_NOT_CONFIGURED == <<"Izvinite, AI poka ne nastroen (net GEMINI_API_KEY).">>
AI_UNAVAILABLE == <<"Izvinite, seichas AI nedostupen. Poprobuite pozzhe.">>
EMPTY_MESSAGE == "Soobshchenie pustoe"
NotFound == "Tort ne naiden"

\* Chat messages: empty, whitespace only (a carriage return and a newline),
\* one naming an initial product in another case between a space and a form
\* feed, and one naming no initial product and ending in a space.
Messages ==
    { <<>>,
      <<"\r", "\n">>,
      <<" ","M","E","D","O","V","I","K","?","\f">>,
      <<"h","i"," ">> }

\* What one call of genai.GenerativeModel(name).generate_content(prompt),
\* followed by the reads of response.text and str(response), can produce:
\* an exception, or a response with or without a text attribute.
ModelResponses ==
    { [raises |-> TRUE,  has_text |-> FALSE, text |-> <<>>, str |-> <<>>],
      [raises |-> FALSE, has_text |-> TRUE,
       text |-> <<" ","o","k","\n">>, str |-> <<"<","r",">">>],
      [raises |-> FALSE, has_text |-> TRUE,
       text |-> <<>>, str |-> <<"<","r",">"," ">>],
      [raises |-> FALSE, has_text |-> FALSE,
       text |-> <<>>, str |-> <<"<","r",">"," ">>],
      [raises |-> FALSE, has_text |-> FALSE, text |-> <<>>, str |-> <<>>] }

\* ------------------------------------------------------------------- state
VARIABLES
    cakes_db,        \* the list of cake records
    db_lock,         \* _db_lock: 0 when free, else the thread holding it
    GEMINI_API_KEY,  \* None or the configured key
    pc,              \* each thread's position in its handler
    req,             \* each thread's current (or last) request
    loc,             \* each thread's local variables
    resp,            \* each thread's last response
    started,         \* number of requests issued so far
    assigned,        \* history: ids assigned by add_cake or initially present
    deleted,         \* history: ids deleted and not assigned again since
    before,          \* history: cakes_db when a running read was called
    muts             \* history: writes to cakes_db since a running read began

vars == <<cakes_db, db_lock, GEMINI_API_KEY, pc, req, loc, resp, started,
          assigned, deleted, before, muts>>

hist == <<assigned, deleted, before, muts>>

NoRequest == [op |-> "none"]
NoResponse == [status |-> 0]
NoLocals ==
    [i |-> 0, new_id |-> 0, user_message |-> <<>>, ai_calls |-> 0,
     attempts |-> <<>>, ai_reply |-> <<>>, items |-> <<>>]

IdsOf(db) == {db[k].id : k \in 1..Len(db)}

InitWith(db) ==
    /\ cakes_db = db
    /\ db_lock = 0
    /\ GEMINI_API_KEY \in {None, "key"}
    /\ pc = [p \in Procs |-> "idle"]
    /\ req = [p \in Procs |-> NoRequest]
    /\ loc = [p \in Procs |-> NoLocals]
    /\ resp = [p \in Procs |-> NoResponse]
    /\ started = 0
    /\ assigned = IdsOf(db)
    /\ deleted = {}
    /\ before = [p \in Procs |-> <<>>]
    /\ muts = [p \in Procs |-> 0]

Init == InitWith(InitialCakes)

ReadOps == {"get_cake", "chatbot"}

Reading(p) == pc[p] \in {"get_iter", "chat_iter"}

\* A thread takes up a new request.
Take(p, r) ==
    /\ started < MaxRequests
    /\ started' = started + 1
    /\ req' = [req EXCEPT ![p] = r]
    /\ UNCHANGED <<cakes_db, db_lock, GEMINI_API_KEY, assigned, deleted, muts>>

Issue(p, r, label) ==
    /\ Take(p, r)
    /\ loc' = [loc EXCEPT ![p] = NoLocals]
    /\ resp' = [resp EXCEPT ![p] = NoResponse]
    /\ pc' = [pc EXCEPT ![p] = label]
    /\ before' = [before EXCEPT ![p] = IF r.op \in ReadOps THEN cakes_db ELSE <<>>]

\* A handler returns (or raises HTTPException): the response is recorded.
Respond(p, status, body) ==
    /\ resp' = [resp EXCEPT ![p] = [status |-> status, body |-> body]]
    /\ pc' = [pc EXCEPT ![p] = "idle"]

\* A read ends: its history is dropped.
EndRead(p) ==
    /\ before' = [before EXCEPT ![p] = <<>>]
    /\ muts' = [muts EXCEPT ![p] = 0]

\* A write to cakes_db is seen by every read in progress.
NoteWrite ==
    muts' = [p \in Procs |-> IF Reading(p) /\ muts[p] < 2 THEN muts[p] + 1 ELSE muts[p]]

\* A variant that enters without waiting for the lock.
Acquire_NoWait(p) == db_lock' = p

\* `with _db_lock:` entry blocks until the lock is free.
Acquire(p) == db_lock = 0 /\ db_lock' = p

\* A variant that leaves the lock held on the way out.
Release_Never(p) == db_lock' = db_lock

\* `with _db_lock:` exit.
Release(p) == db_lock' = 0

\* ------------------------------------------------------------- get_next_id
SeqMax(ids) ==
    IF ids = {} THEN 0 ELSE CHOOSE m \in ids : \A x \in ids : x <= m

\* A variant that numbers by the length of the list.
NextId_ByCount(db) == Len(db) + 1

\* max([c["id"] for c in cakes_db], default=0) + 1
NextId(db) == SeqMax(IdsOf(db)) + 1

get_next_id_acquire(p) ==
    /\ pc[p] = "next_id_acquire"
    /\ Acquire(p)
    /\ pc' = [pc EXCEPT ![p] = "next_id_return"]
    /\ UNCHANGED <<cakes_db, GEMINI_API_KEY, req, loc, resp, started, hist>>

get_next_id_return(p) ==
    /\ pc[p] = "next_id_return"
    /\ loc' = [loc EXCEPT ![p].new_id = NextId(cakes_db)]
    /\ Release(p)
    /\ pc' = [pc EXCEPT ![p] = "add_acquire"]
    /\ UNCHANGED <<cakes_db, GEMINI_API_KEY, req, resp, started, hist>>

\* ---------------------------------------------------------------- add_cake
\* {"id": new_id, **cake.dict()}
WithId(id, cake) ==
    [id |-> id, name |-> cake.name, description |-> cake.description,
     price |-> cake.price, stock |-> cake.stock]

add_cake_call(p) ==
    /\ pc[p] = "idle"
    /\ \E cake \in CakeInputs :
          Issue(p, [op |-> "add_cake", cake |-> cake], "next_id_acquire")

add_cake_acquire(p) ==
    /\ pc[p] = "add_acquire"
    /\ Acquire(p)
    /\ pc' = [pc EXCEPT ![p] = "add_append"]
    /\ UNCHANGED <<cakes_db, GEMINI_API_KEY, req, loc, resp, started, hist>>

\* A variant that puts the new record at the head of the list.
add_cake_insert_first(p) ==
    /\ pc[p] = "add_append"
    /\ cakes_db' = <<WithId(loc[p].new_id, req[p].cake)>> \o cakes_db
    /\ pc' = [pc EXCEPT ![p] = "add_return"]
    /\ assigned' = assigned \cup {loc[p].new_id}
    /\ deleted' = deleted \ {loc[p].new_id}
    /\ NoteWrite
    /\ UNCHANGED <<db_lock, GEMINI_API_KEY, req, loc, resp, started, before>>

add_cake_append(p) ==
    /\ pc[p] = "add_append"
    /\ cakes_db' = Append(cakes_db, WithId(loc[p].new_id, req[p].cake))
    /\ pc' = [pc EXCEPT ![p] = "add_return"]
    /\ assigned' = assigned \cup {loc[p].new_id}
    /\ deleted' = deleted \ {loc[p].new_id}
    /\ NoteWrite
    /\ UNCHANGED <<db_lock, GEMINI_API_KEY, req, loc, resp, started, before>>

add_cake_return(p) ==
    /\ pc[p] = "add_return"
    /\ Release(p)
    /\ Respond(p, 201, WithId(loc[p].new_id, req[p].cake))
    /\ UNCHANGED <<cakes_db, GEMINI_API_KEY, req, loc, started, hist>>

add_cake(p) ==
    \/ add_cake_call(p)
    \/ get_next_id_acquire(p)
    \/ get_next_id_return(p)
    \/ add_cake_acquire(p)
    \/ add_cake_append(p)
    \/ add_cake_return(p)

\* ------------------------------------------------------------- update_cake
\* The position at which `for i, c in enumerate(db)` first meets the id
\* (1-based), or 0 when the loop ends without meeting it. The loop runs with
\* _db_lock held, as does every write to cakes_db, so it is one step.
FirstIndex(db, cake_id) ==
    IF \E k \in 1..Len(db) : db[k].id = cake_id
    THEN CHOOSE k \in 1..Len(db) :
            /\ db[k].id = cake_id
            /\ \A j \in 1..(k - 1) : db[j].id # cake_id
    ELSE 0

update_cake_call(p) ==
    /\ pc[p] = "idle"
    /\ \E cake_id \in CakeIds, cake \in CakeInputs :
          Issue(p, [op |-> "update_cake", cake_id |-> cake_id, cake |-> cake],
                "upd_acquire")

update_cake_acquire(p) ==
    /\ pc[p] = "upd_acquire"
    /\ Acquire(p)
    /\ pc' = [pc EXCEPT ![p] = "upd_search"]
    /\ UNCHANGED <<cakes_db, GEMINI_API_KEY, req, loc, resp, started, hist>>

update_cake_search(p) ==
    /\ pc[p] = "upd_search"
    /\ FirstIndex(cakes_db, req[p].cake_id) # 0
    /\ loc' = [loc EXCEPT ![p].i = FirstIndex(cakes_db, req[p].cake_id)]
    /\ pc' = [pc EXCEPT ![p] = "upd_replace"]
    /\ UNCHANGED <<cakes_db, db_lock, GEMINI_API_KEY, req, resp, started, hist>>

\* A variant that takes the record out and appends its replacement.
update_cake_replace_move_last(p) ==
    /\ pc[p] = "upd_replace"
    /\ cakes_db' = Append(SubSeq(cakes_db, 1, loc[p].i - 1)
                              \o SubSeq(cakes_db, loc[p].i + 1, Len(cakes_db)),
                          WithId(req[p].cake_id, req[p].cake))
    /\ pc' = [pc EXCEPT ![p] = "upd_return"]
    /\ NoteWrite
    /\ UNCHANGED <<db_lock, GEMINI_API_KEY, req, loc, resp, started,
                   assigned, deleted, before>>

\* A variant that keeps the stored name (a partial update).
update_cake_replace_keep_name(p) ==
    /\ pc[p] = "upd_replace"
    /\ cakes_db' = [cakes_db EXCEPT ![loc[p].i] =
                        [WithId(req[p].cake_id, req[p].cake) EXCEPT !.name = cakes_db[loc[p].i].name]]
    /\ pc' = [pc EXCEPT ![p] = "upd_return"]
    /\ NoteWrite
    /\ UNCHANGED <<db_lock, GEMINI_API_KEY, req, loc, resp, started,
                   assigned, deleted, before>>

update_cake_replace(p) ==
    /\ pc[p] = "upd_replace"
    /\ cakes_db' = [cakes_db EXCEPT ![loc[p].i] = WithId(req[p].cake_id, req[p].cake)]
    /\ pc' = [pc EXCEPT ![p] = "upd_return"]
    /\ NoteWrite
    /\ UNCHANGED <<db_lock, GEMINI_API_KEY, req, loc, resp, started,
                   assigned, deleted, before>>

update_cake_return(p) ==
    /\ pc[p] = "upd_return"
    /\ Release(p)
    /\ Respond(p, 200, WithId(req[p].cake_id, req[p].cake))
    /\ UNCHANGED <<cakes_db, GEMINI_API_KEY, req, loc, started, hist>>

update_cake_not_found(p) ==
    /\ pc[p] = "upd_search"
    /\ FirstIndex(cakes_db, req[p].cake_id) = 0
    /\ Release(p)
    /\ Respond(p, 404, NotFound)
    /\ UNCHANGED <<cakes_db, GEMINI_API_KEY, req, loc, started, hist>>

update_cake(p) ==
    \/ update_cake_call(p)
    \/ update_cake_acquire(p)
    \/ update_cake_search(p)
    \/ update_cake_replace(p)
    \/ update_cake_return(p)
    \/ update_cake_not_found(p)

\* ------------------------------------------------------------- delete_cake
\* A variant that drops the last element, whatever c is.
ListRemove_Last(db, c) == SubSeq(db, 1, Len(db) - 1)

\* list.remove(c): the list without its first element equal to c.
ListRemove(db, c) ==
    LET k == CHOOSE j \in 1..Len(db) :
                 db[j] = c /\ \A h \in 1..(j - 1) : db[h] # c
    IN  SubSeq(db, 1, k - 1) \o SubSeq(db, k + 1, Len(db))

Deleted(cake_id) == [message |-> <<"Tort ", cake_id, " udalen">>]

delete_cake_call(p) ==
    /\ pc[p] = "idle"
    /\ \E cake_id \in CakeIds :
          Issue(p, [op |-> "delete_cake", cake_id |-> cake_id], "del_acquire")

delete_cake_acquire(p) ==
    /\ pc[p] = "del_acquire"
    /\ Acquire(p)
    /\ pc' = [pc EXCEPT ![p] = "del_search"]
    /\ UNCHANGED <<cakes_db, GEMINI_API_KEY, req, loc, resp, started, hist>>

delete_cake_search(p) ==
    /\ pc[p] = "del_search"
    /\ FirstIndex(cakes_db, req[p].cake_id) # 0
    /\ loc' = [loc EXCEPT ![p].i = FirstIndex(cakes_db, req[p].cake_id)]
    /\ pc' = [pc EXCEPT ![p] = "del_remove"]
    /\ UNCHANGED <<cakes_db, db_lock, GEMINI_API_KEY, req, resp, started, hist>>

delete_cake_remove(p) ==
    /\ pc[p] = "del_remove"
    /\ cakes_db' = ListRemove(cakes_db, cakes_db[loc[p].i])
    /\ pc' = [pc EXCEPT ![p] = "del_return"]
    /\ deleted' = deleted \cup {req[p].cake_id}
    /\ NoteWrite
    /\ UNCHANGED <<db_lock, GEMINI_API_KEY, req, loc, resp, started,
                   assigned, before>>

delete_cake_return(p) ==
    /\ pc[p] = "del_return"
    /\ Release(p)
    /\ Respond(p, 200, Deleted(req[p].cake_id))
    /\ UNCHANGED <<cakes_db, GEMINI_API_KEY, req, loc, started, hist>>

delete_cake_not_found(p) ==
    /\ pc[p] = "del_search"
    /\ FirstIndex(cakes_db, req[p].cake_id) = 0
    /\ Release(p)
    /\ Respond(p, 404, NotFound)
    /\ UNCHANGED <<cakes_db, GEMINI_API_KEY, req, loc, started, hist>>

delete_cake(p) ==
    \/ delete_cake_call(p)
    \/ delete_cake_acquire(p)
    \/ delete_cake_search(p)
    \/ delete_cake_remove(p)
    \/ delete_cake_return(p)
    \/ delete_cake_not_found(p)

\* --------------------------------------------------------------- get_cakes
\* `return cakes_db` hands back the list object itself, without the lock and
\* without a copy. The body of the response (response_model=List[dict]) is
\* read from that object after the handler has returned, item by item as a
\* list iterator does (loc.i items taken so far, gathered in loc.items), so
\* writes by other threads up to the end of that reading are seen.
get_cakes_call(p) ==
    /\ pc[p] = "idle"
    /\ Issue(p, [op |-> "get_cakes"], "list_iter")

get_cakes_next(p) ==
    /\ pc[p] = "list_iter"
    /\ loc[p].i < Len(cakes_db)
    /\ loc' = [loc EXCEPT ![p].i = @ + 1,
                          ![p].items = Append(@, cakes_db[loc[p].i + 1])]
    /\ UNCHANGED <<cakes_db, db_lock, GEMINI_API_KEY, pc, req, resp, started, hist>>

get_cakes_end(p) ==
    /\ pc[p] = "list_iter"
    /\ loc[p].i >= Len(cakes_db)
    /\ Respond(p, 200, loc[p].items)
    /\ UNCHANGED <<cakes_db, db_lock, GEMINI_API_KEY, req, loc, started, hist>>

get_cakes(p) ==
    \/ get_cakes_call(p)
    \/ get_cakes_next(p)
    \/ get_cakes_end(p)

\* ---------------------------------------------------------------- get_cake
\* `for c in cakes_db` without the lock: the list iterator keeps an index
\* (loc.i, the number of items taken) and reads the list as it is at each
\* step, so writes by other threads between two steps are seen.
get_cake_call(p) ==
    /\ pc[p] = "idle"
    /\ \E cake_id \in CakeIds :
          Issue(p, [op |-> "get_cake", cake_id |-> cake_id], "get_iter")

get_cake_next(p) ==
    /\ pc[p] = "get_iter"
    /\ loc[p].i < Len(cakes_db)
    /\ cakes_db[loc[p].i + 1].id # req[p].cake_id
    /\ loc' = [loc EXCEPT ![p].i = @ + 1]
    /\ UNCHANGED <<cakes_db, db_lock, GEMINI_API_KEY, pc, req, resp, started, hist>>

get_cake_found(p) ==
    /\ pc[p] = "get_iter"
    /\ loc[p].i < Len(cakes_db)
    /\ cakes_db[loc[p].i + 1].id = req[p].cake_id
    /\ loc' = [loc EXCEPT ![p].i = @ + 1]
    /\ Respond(p, 200, cakes_db[loc[p].i + 1])
    /\ EndRead(p)
    /\ UNCHANGED <<cakes_db, db_lock, GEMINI_API_KEY, req, started, assigned, deleted>>

get_cake_not_found(p) ==
    /\ pc[p] = "get_iter"
    /\ loc[p].i >= Len(cakes_db)
    /\ Respond(p, 404, NotFound)
    /\ EndRead(p)
    /\ UNCHANGED <<cakes_db, db_lock, GEMINI_API_KEY, req, loc, started,
                   assigned, deleted>>

get_cake(p) ==
    \/ get_cake_call(p)
    \/ get_cake_next(p)
    \/ get_cake_found(p)
    \/ get_cake_not_found(p)

\* What get_cake returns when nothing writes cakes_db while it runs.
GetCakeOn(db, cake_id) ==
    IF FirstIndex(db, cake_id) = 0
    THEN [status |-> 404, body |-> NotFound]
    ELSE [status |-> 200, body |-> db[FirstIndex(db, cake_id)]]

\* ----------------------------------------------------------------- chatbot
\* The async handler runs on the event loop thread and never awaits, so at
\* most one chatbot request is in progress at a time.
InChatbot(q) == pc[q] \in {"chat_iter", "ask_gemini", "chat_return"}

\* A variant that compares the name as stored, without lower().
Matches_CaseSensitive(cake, user_message) ==
    IsSubstring(cake.name, lower(user_message))

\* if cake["name"].lower() in name_lower
Matches(cake, user_message) == IsSubstring(lower(cake.name), lower(user_message))

\* The f-string of the local reply; a float such as 5500.0 prints as "5500.0".
LocalReply(cake) ==
    <<"Da, est' ">> \o cake.name
        \o <<". ", cake.description, ". ", "Tsena: ", ToString(cake.price), ".0",
             "T. V nalichii: ", ToString(cake.stock), " sht.">>

Local(cake) == [source |-> "local", reply |-> LocalReply(cake)]

Ai(ai_reply) == [source |-> "ai", reply |-> ai_reply]

\* An empty message (after strip) is refused before anything else happens.
chatbot_empty(p) ==
    /\ pc[p] = "idle"
    /\ \A q \in Procs : ~InChatbot(q)
    /\ \E message \in Messages :
          /\ strip(message) = <<>>
          /\ Take(p, [op |-> "chatbot", message |-> message])
    /\ loc' = [loc EXCEPT ![p] = NoLocals]
    /\ resp' = [resp EXCEPT ![p] = [status |-> 400, body |-> EMPTY_MESSAGE]]
    /\ UNCHANGED <<pc, before>>

\* A variant that tests the message as sent, without strip().
chatbot_call_untrimmed(p) ==
    /\ pc[p] = "idle"
    /\ \A q \in Procs : ~InChatbot(q)
    /\ \E message \in Messages :
          /\ message # <<>>
          /\ Take(p, [op |-> "chatbot", message |-> message])
          /\ loc' = [loc EXCEPT ![p] = [NoLocals EXCEPT !.user_message = strip(message)]]
    /\ resp' = [resp EXCEPT ![p] = NoResponse]
    /\ pc' = [pc EXCEPT ![p] = "chat_iter"]
    /\ before' = [before EXCEPT ![p] = cakes_db]

chatbot_call(p) ==
    /\ pc[p] = "idle"
    /\ \A q \in Procs : ~InChatbot(q)
    /\ \E message \in Messages :
          /\ strip(message) # <<>>
          /\ Take(p, [op |-> "chatbot", message |-> message])
          /\ loc' = [loc EXCEPT ![p] = [NoLocals EXCEPT !.user_message = strip(message)]]
    /\ resp' = [resp EXCEPT ![p] = NoResponse]
    /\ pc' = [pc EXCEPT ![p] = "chat_iter"]
    /\ before' = [before EXCEPT ![p] = cakes_db]

\* A variant of the scan that may pass over a matching cake.
chatbot_next_passing(p) ==
    /\ pc[p] = "chat_iter"
    /\ loc[p].i < Len(cakes_db)
    /\ loc' = [loc EXCEPT ![p].i = @ + 1]
    /\ UNCHANGED <<cakes_db, db_lock, GEMINI_API_KEY, pc, req, resp, started, hist>>

\* `for cake in cakes_db` without the lock, as in get_cake.
chatbot_next(p) ==
    /\ pc[p] = "chat_iter"
    /\ loc[p].i < Len(cakes_db)
    /\ ~Matches(cakes_db[loc[p].i + 1], loc[p].user_message)
    /\ loc' = [loc EXCEPT ![p].i = @ + 1]
    /\ UNCHANGED <<cakes_db, db_lock, GEMINI_API_KEY, pc, req, resp, started, hist>>

chatbot_local(p) ==
    /\ pc[p] = "chat_iter"
    /\ loc[p].i < Len(cakes_db)
    /\ Matches(cakes_db[loc[p].i + 1], loc[p].user_message)
    /\ loc' = [loc EXCEPT ![p].i = @ + 1]
    /\ Respond(p, 200, Local(cakes_db[loc[p].i + 1]))
    /\ EndRead(p)
    /\ UNCHANGED <<cakes_db, db_lock, GEMINI_API_KEY, req, started, assigned, deleted>>

\* The loop ends without a match: ask_gemini_short is called.
chatbot_miss(p) ==
    /\ pc[p] = "chat_iter"
    /\ loc[p].i >= Len(cakes_db)
    /\ pc' = [pc EXCEPT ![p] = "ask_gemini"]
    /\ loc' = [loc EXCEPT ![p].ai_calls = @ + 1]
    /\ EndRead(p)
    /\ UNCHANGED <<cakes_db, db_lock, GEMINI_API_KEY, req, resp, started,
                   assigned, deleted>>

\* What the chatbot's scan decides when nothing writes cakes_db while it
\* runs: the first matching cake's position, or 0.
FirstMatch(db, user_message) ==
    IF \E k \in 1..Len(db) : Matches(db[k], user_message)
    THEN CHOOSE k \in 1..Len(db) :
            /\ Matches(db[k], user_message)
            /\ \A j \in 1..(k - 1) : ~Matches(db[j], user_message)
    ELSE 0

\* -------------------------------------------------------- ask_gemini_short
\* Variant testing for the empty string only: a missing key passes.
NotConfigured_EmptyOnly == GEMINI_API_KEY = ""

\* `if not GEMINI_API_KEY`
NotConfigured == GEMINI_API_KEY \in {None, ""}

\* A variant that takes response.text only.
TextOf_NoFallback(response) ==
    IF response.has_text THEN response.text ELSE <<>>

\* text = getattr(response, "text", None); if not text: text = str(response)
TextOf(response) ==
    IF response.has_text /\ response.text # <<>>
    THEN response.text
    ELSE response.str

\* The model tried a step of `for model_name in CANDIDATE_MODELS`.
Attempt(p, response) ==
    [model |-> CANDIDATE_MODELS[Len(loc[p].attempts) + 1], response |-> response]

\* The call gives text: ask_gemini_short returns it stripped.
Answers(response) == ~response.raises /\ TextOf(response) # <<>>

\* ask_gemini_short returns to chatbot.
Return(p, text) ==
    /\ loc' = [loc EXCEPT ![p].ai_reply = text]
    /\ pc' = [pc EXCEPT ![p] = "chat_return"]

ask_gemini_not_configured(p) ==
    /\ pc[p] = "ask_gemini"
    /\ NotConfigured
    /\ Return(p, AI_NOT_CONFIGURED)
    /\ UNCHANGED <<cakes_db, db_lock, GEMINI_API_KEY, req, resp, started, hist>>

ask_gemini_answer(p) ==
    /\ pc[p] = "ask_gemini"
    /\ ~NotConfigured
    /\ Len(loc[p].attempts) < Len(CANDIDATE_MODELS)
    /\ \E response \in ModelResponses :
          /\ Answers(response)
          /\ loc' = [loc EXCEPT ![p].attempts = Append(@, Attempt(p, response)),
                                ![p].ai_reply = strip(TextOf(response))]
    /\ pc' = [pc EXCEPT ![p] = "chat_return"]
    /\ UNCHANGED <<cakes_db, db_lock, GEMINI_API_KEY, req, resp, started, hist>>

\* Variant without the try/except of lines 115-129: a call that raises ends
\* the request with a server fault.
ask_gemini_continue_propagating(p) ==
    /\ pc[p] = "ask_gemini"
    /\ ~NotConfigured
    /\ Len(loc[p].attempts) < Len(CANDIDATE_MODELS)
    /\ \E response \in ModelResponses :
          /\ ~Answers(response)
          /\ loc' = [loc EXCEPT ![p].attempts = Append(@, Attempt(p, response))]
          /\ IF response.raises
             THEN Respond(p, 500, "Internal Server Error")
             ELSE UNCHANGED <<pc, resp>>
    /\ UNCHANGED <<cakes_db, db_lock, GEMINI_API_KEY, req, started, hist>>

\* The call raised, or gave neither text nor a non-empty str(response): the
\* loop goes on to the next model.
ask_gemini_continue(p) ==
    /\ pc[p] = "ask_gemini"
    /\ ~NotConfigured
    /\ Len(loc[p].attempts) < Len(CANDIDATE_MODELS)
    /\ \E response \in ModelResponses :
          /\ ~Answers(response)
          /\ loc' = [loc EXCEPT ![p].attempts = Append(@, Attempt(p, response))]
    /\ UNCHANGED <<cakes_db, db_lock, GEMINI_API_KEY, pc, req, resp, started, hist>>

ask_gemini_exhausted(p) ==
    /\ pc[p] = "ask_gemini"
    /\ ~NotConfigured
    /\ Len(loc[p].attempts) >= Len(CANDIDATE_MODELS)
    /\ Return(p, AI_UNAVAILABLE)
    /\ UNCHANGED <<cakes_db, db_lock, GEMINI_API_KEY, req, resp, started, hist>>

\* return {"source": "ai", "reply": ai_reply}
chatbot_return(p) ==
    /\ pc[p] = "chat_return"
    /\ Respond(p, 200, Ai(loc[p].ai_reply))
    /\ UNCHANGED <<cakes_db, db_lock, GEMINI_API_KEY, req, loc, started, hist>>

chatbot(p) ==
    \/ chatbot_empty(p)
    \/ chatbot_call(p)
    \/ chatbot_next(p)
    \/ chatbot_local(p)
    \/ chatbot_miss(p)
    \/ ask_gemini_not_configured(p)
    \/ ask_gemini_answer(p)
    \/ ask_gemini_continue(p)
    \/ ask_gemini_exhausted(p)
    \/ chatbot_return(p)

\* ---------------------------------------------------------- specifications
Step(p) ==
    \/ add_cake(p)
    \/ update_cake(p)
    \/ delete_cake(p)
    \/ get_cakes(p)
    \/ get_cake(p)
    \/ chatbot(p)

\* Requests served concurrently by two threads.
Next == \E p \in ConcProcs : Step(p)

Spec == Init /\ [][Next]_vars

\* Requests served one at a time.
NextSeq == Step(SeqProc)

SpecSeq == Init /\ [][NextSeq]_vars

\* Only creates, one at a time.
NextSeqCreates == add_cake(SeqProc)

SpecSeqCreates == Init /\ [][NextSeqCreates]_vars

\* Concurrent creates, one per caller, on an empty store (the store is empty
\* once every record has been deleted).
InitEmpty == InitWith(<<>>)

NextCreates ==
    \E p \in Procs :
        \/ req[p].op = "none" /\ add_cake_call(p)
        \/ get_next_id_acquire(p)
        \/ get_next_id_return(p)
        \/ add_cake_acquire(p)
        \/ add_cake_append(p)
        \/ add_cake_return(p)

SpecCreates == InitEmpty /\ [][NextCreates]_vars

\* Concurrent creates, updates and deletes served by two threads of the
\* threadpool. Each thread is scheduled by the operating system: a request
\* whose next step stays possible is eventually given the processor.
Serve(p) ==
    /\ pc[p] # "idle"
    /\ (add_cake(p) \/ update_cake(p) \/ delete_cake(p))

NextWrites == \E p \in ConcProcs : add_cake(p) \/ update_cake(p) \/ delete_cake(p)

SpecWritesFair ==
    /\ Init
    /\ [][NextWrites]_vars
    /\ \A p \in ConcProcs : WF_vars(Serve(p))

\* ================================================================= claims
Done(p) == pc[p] = "idle" /\ resp[p].status # 0

\* C1: under any interleaving of concurrent create, update and delete
\* requests, no two records of cakes_db ever share an id.
C1_UniqueIds ==
    \A i, j \in 1..Len(cakes_db) :
        i # j => cakes_db[i].id # cakes_db[j].id

\* C2: when N >= 1 creates run concurrently against an empty store, once
\* all have completed the store holds exactly N records whose ids are
\* exactly 1..N.
C2_ConcurrentCreates ==
    (started >= 1 /\ \A p \in Procs : pc[p] = "idle")
        => /\ Len(cakes_db) = started
           /\ IdsOf(cakes_db) = 1..started

\* The id a create has decided on (after get_next_id, before the append).
Deciding(p) == pc[p] \in {"add_acquire", "add_append"}

\* C3 (as stated): in a sequential run the id assigned by a create differs
\* from every id assigned earlier or initially present, deleted or not.
C3_NeverReused ==
    \A p \in Procs : Deciding(p) => loc[p].new_id \notin assigned

\* C3 (amended): in a sequential run the id assigned by a create is strictly
\* greater than every id in the store at that time, and it equals an id
\* assigned earlier only when that id's record has been deleted.
C3_FreshAmongStored ==
    \A p \in Procs :
        Deciding(p) =>
            /\ \A id \in IdsOf(cakes_db) : id < loc[p].new_id
            /\ loc[p].new_id \in assigned => loc[p].new_id \in deleted

\* A create is about to reuse the id of a deleted record.
C3_Witness ==
    \E p \in Procs :
        /\ pc[p] = "add_append"
        /\ loc[p].new_id \in assigned
        /\ loc[p].new_id \in deleted

\* What C4 asks of the steps of add_cake: of get_next_id's return, of the
\* append, and of the handler's return.
C4_Step ==
    \A p \in Procs :
        /\ (pc[p] = "next_id_return" /\ pc'[p] = "add_acquire") =>
              /\ \A id \in assigned : id < loc'[p].new_id
              /\ \A id \in IdsOf(cakes_db) : id < loc'[p].new_id
              /\ IF cakes_db = <<>>
                 THEN loc'[p].new_id = 1
                 ELSE loc'[p].new_id - 1 \in IdsOf(cakes_db)
        /\ (pc[p] = "add_append" /\ pc'[p] = "add_return") =>
              /\ Len(cakes_db') = Len(cakes_db) + 1
              /\ SubSeq(cakes_db', 1, Len(cakes_db)) = cakes_db
              /\ cakes_db'[Len(cakes_db')].id = loc[p].new_id
              /\ cakes_db'[Len(cakes_db')].name = req[p].cake.name
              /\ cakes_db'[Len(cakes_db')].description = req[p].cake.description
              /\ cakes_db'[Len(cakes_db')].price = req[p].cake.price
              /\ cakes_db'[Len(cakes_db')].stock = req[p].cake.stock
        /\ (pc[p] = "add_return" /\ pc'[p] = "idle") =>
              /\ resp'[p].status = 201
              /\ resp'[p].body = cakes_db[Len(cakes_db)]
              /\ resp'[p].body.id = loc[p].new_id

\* C4: in a sequential run of creates only, each create assigns
\* (maximum id in the store, or 0 if it is empty) + 1, which is strictly
\* greater than every id assigned before; the new record is appended at the
\* end of the store; the returned record equals the stored one, id included.
C4_CreatesOnly == [][C4_Step]_vars

\* A second create has returned the record it stored, with id 4.
C4_Witness ==
    /\ Done(SeqProc)
    /\ started >= 2
    /\ resp[SeqProc].status = 201
    /\ resp[SeqProc].body.id = 4
    /\ cakes_db[Len(cakes_db)] = resp[SeqProc].body

\* Two responses agree: the same status and, on success, the same body.
SameResp(a, b) == a.status = b.status /\ (a.status = 200 => a.body = b.body)

\* What C5 asks of the step that ends get_cake's loop or the chatbot's scan.
C5_Step ==
    \A p \in Procs :
        /\ (pc[p] = "get_iter" /\ pc'[p] = "idle" /\ muts[p] <= 1) =>
              \/ SameResp(resp'[p], GetCakeOn(before[p], req[p].cake_id))
              \/ SameResp(resp'[p], GetCakeOn(cakes_db, req[p].cake_id))
        /\ (pc[p] = "chat_iter" /\ pc'[p] # "chat_iter" /\ muts[p] <= 1) =>
              \E db \in {before[p], cakes_db} :
                  IF pc'[p] = "ask_gemini"
                  THEN FirstMatch(db, loc[p].user_message) = 0
                  ELSE /\ FirstMatch(db, loc[p].user_message) # 0
                       /\ resp'[p].body =
                              Local(db[FirstMatch(db, loc[p].user_message)])

\* C5: a read (get_cake, or the chatbot's scan) during which at most one
\* write to cakes_db happens returns what it would return on the store as
\* it was before that write or as it is after it. In particular get_cake
\* does not answer NotFound for an id present before and after a concurrent
\* delete of another record.
C5_ConsistentRead == [][C5_Step]_vars

\* The sections of the handlers that run inside `with _db_lock`.
InLocked(p) ==
    pc[p] \in {"next_id_return", "add_append", "add_return",
               "upd_search", "upd_replace", "upd_return",
               "del_search", "del_remove", "del_return"}

\* C6: at most one request is inside a section that modifies cakes_db, every
\* such section runs with _db_lock held, and update_cake and delete_cake
\* hold the lock from their search to their modification: the position they
\* found is still the first record with the requested id when they write.
C6_MutualExclusion ==
    /\ \A p, q \in Procs : (p # q /\ InLocked(p)) => ~InLocked(q)
    /\ \A p \in Procs : InLocked(p) => db_lock = p
    /\ \A p \in Procs :
          pc[p] \in {"upd_replace", "del_remove"} =>
              FirstIndex(cakes_db, req[p].cake_id) = loc[p].i

\* An update is between its search and its write, holding the lock, while
\* another thread's create or delete waits to enter its locked section.
C6_Witness ==
    \E p, q \in Procs :
        /\ pc[p] = "upd_replace"
        /\ pc[q] \in {"add_acquire", "del_acquire"}
        /\ db_lock = p

\* A request for an id that no record of the store has, before the handler
\* has decided.
AbsentCall(p) ==
    /\ pc[p] \in {"get_iter", "upd_acquire", "upd_search", "del_acquire", "del_search"}
    /\ req[p].cake_id \notin IdsOf(cakes_db)

\* What C7 asks of the steps of get_cake, update_cake and delete_cake.
C7_Step ==
    \A p \in Procs :
        /\ (pc[p] = "get_iter" /\ pc'[p] = "idle" /\ req[p].cake_id \in deleted) =>
              /\ resp'[p].status = 404
              /\ resp'[p].body = NotFound
        /\ AbsentCall(p) =>
              /\ cakes_db' = cakes_db
              /\ pc'[p] \notin {"upd_replace", "del_remove"}
              /\ pc'[p] = "idle" => (resp'[p].status = 404 /\ resp'[p].body = NotFound)

\* C7: in a sequential run, get_cake(id) yields NotFound (404) for an id
\* that was deleted and not assigned again by a later create; delete_cake,
\* update_cake and get_cake with an id that is not in the store yield
\* NotFound (404) and leave the store unchanged.
C7_NotFound == [][C7_Step]_vars

\* get_cake has answered 404 for an id whose record an earlier delete_cake
\* removed.
C7_Witness ==
    \E p \in Procs :
        /\ Done(p)
        /\ req[p].op = "get_cake"
        /\ req[p].cake_id \in deleted
        /\ req[p].cake_id \in assigned
        /\ resp[p].status = 404

\* C8: update_cake(id, fields) on an id in the store replaces that record's
\* name, description, price and stock with the supplied fields, keeps its id
\* equal to the requested id and returns the stored record; get_cake(id) on
\* the resulting store returns that same record.
C8_UpdateReplaces ==
    \A p \in Procs :
        /\ (Done(p) /\ req[p].op = "update_cake" /\ resp[p].status = 200) =>
              /\ FirstIndex(cakes_db, req[p].cake_id) # 0
              /\ cakes_db[FirstIndex(cakes_db, req[p].cake_id)] = resp[p].body
              /\ resp[p].body.id = req[p].cake_id
              /\ resp[p].body.name = req[p].cake.name
              /\ resp[p].body.description = req[p].cake.description
              /\ resp[p].body.price = req[p].cake.price
              /\ resp[p].body.stock = req[p].cake.stock
              /\ SameResp(GetCakeOn(cakes_db, req[p].cake_id), resp[p])
        /\ (Done(p) /\ req[p].op = "update_cake" /\ resp[p].status # 200) =>
              req[p].cake_id \notin IdsOf(cakes_db)
        /\ (Done(p) /\ req[p].op = "get_cake") =>
              SameResp(resp[p], GetCakeOn(cakes_db, req[p].cake_id))

\* An update of record 2 has returned, and the stored record carries the
\* supplied (empty) name and (negative) price in place of the initial ones.
C8_Witness ==
    \E p \in Procs :
        /\ Done(p)
        /\ req[p].op = "update_cake"
        /\ resp[p].status = 200
        /\ req[p].cake_id = 2
        /\ cakes_db[2].id = 2
        /\ cakes_db[2].name = <<>>
        /\ cakes_db[2].price = -1

\* A chat request with a non-empty message has been answered.
ChatDone(p) ==
    /\ Done(p)
    /\ req[p].op = "chatbot"
    /\ strip(req[p].message) # <<>>

\* Some product's lowercased name is a substring of the lowercased text.
Named(text) ==
    \E k \in 1..Len(cakes_db) : IsSubstring(lower(cakes_db[k].name), lower(text))

\* The chatbot answered from the catalog, without a call of the AI client.
AnsweredLocal(p) ==
    /\ resp[p].status = 200
    /\ resp[p].body.source = "local"
    /\ loc[p].ai_calls = 0

\* The chatbot called the AI client once and answered with its result.
AnsweredAi(p) ==
    /\ resp[p].status = 200
    /\ resp[p].body.source = "ai"
    /\ loc[p].ai_calls = 1
    /\ resp[p].body.reply = loc[p].ai_reply

\* C9 (as stated): for a non-empty (after trimming) message the chatbot
\* answers "local" without calling the AI client iff the lowercased name of
\* some product in the catalog is a substring of the lowercased message;
\* otherwise it calls the AI client once and answers "ai" with its result.
C9_LocalIffNamed ==
    \A p \in Procs :
        ChatDone(p) =>
            IF Named(req[p].message) THEN AnsweredLocal(p) ELSE AnsweredAi(p)

\* C9 (amended): the same, with the name looked for in the lowercased
\* message after its surrounding whitespace is trimmed.
C9_LocalIffNamedInTrimmed ==
    \A p \in Procs :
        ChatDone(p) =>
            IF Named(strip(req[p].message)) THEN AnsweredLocal(p) ELSE AnsweredAi(p)

\* The chatbot answered "ai" although a product's name (ending in a space)
\* is in the untrimmed message.
C9_Witness ==
    \E p \in Procs :
        /\ ChatDone(p)
        /\ AnsweredAi(p)
        /\ Named(req[p].message)
        /\ ~Named(strip(req[p].message))

\* ask_gemini_short was called with a credential configured.
Asked(p) == req[p].op = "chatbot" /\ loc[p].ai_calls = 1 /\ ~NotConfigured

\* ask_gemini_short has returned.
AskReturned(p) == Asked(p) /\ pc[p] \in {"chat_return", "idle"}

\* The models were invoked in the order of CANDIDATE_MODELS, none twice.
InOrder(p) ==
    /\ Len(loc[p].attempts) <= Len(CANDIDATE_MODELS)
    /\ \A k \in 1..Len(loc[p].attempts) :
          loc[p].attempts[k].model = CANDIDATE_MODELS[k]

\* The response carries a non-empty text.
HasText(response) ==
    ~response.raises /\ response.has_text /\ response.text # <<>>

LastAttempt(p) == loc[p].attempts[Len(loc[p].attempts)].response

\* C10 (as stated): ask_gemini_short invokes the models in the order of
\* CANDIDATE_MODELS, model k only after every model before it failed (raised,
\* or gave no text), and returns the first non-empty text response, trimmed;
\* a response that carries no text does not supply the returned value.
C10_FirstText ==
    \A p \in Procs :
        Asked(p) =>
            /\ InOrder(p)
            /\ \A k \in 1..(Len(loc[p].attempts) - 1) :
                  ~HasText(loc[p].attempts[k].response)
            /\ AskReturned(p) =>
                  /\ loc[p].attempts # <<>>
                  /\ IF HasText(LastAttempt(p))
                     THEN loc[p].ai_reply = strip(LastAttempt(p).text)
                     ELSE loc[p].ai_reply = AI_UNAVAILABLE

\* The response supplies a value: a non-empty text or, without one, a
\* non-empty str(response).
Supplies(response) ==
    ~response.raises /\ (HasText(response) \/ response.str # <<>>)

Supplied(response) ==
    IF HasText(response) THEN strip(response.text) ELSE strip(response.str)

\* C10 (amended): ask_gemini_short invokes the models in the order of
\* CANDIDATE_MODELS, model k only after every model before it raised or gave
\* neither a text nor a non-empty str(response), and returns, trimmed, the
\* text of the first response that has one or else that response's
\* str(response): a response without text supplies str(response).
C10_FirstTextOrStr ==
    \A p \in Procs :
        Asked(p) =>
            /\ InOrder(p)
            /\ \A k \in 1..(Len(loc[p].attempts) - 1) :
                  ~Supplies(loc[p].attempts[k].response)
            /\ pc[p] = "ask_gemini" =>
                  \A k \in 1..Len(loc[p].attempts) :
                      ~Supplies(loc[p].attempts[k].response)
            /\ AskReturned(p) =>
                  /\ loc[p].attempts # <<>>
                  /\ IF Supplies(LastAttempt(p))
                     THEN loc[p].ai_reply = Supplied(LastAttempt(p))
                     ELSE /\ Len(loc[p].attempts) = Len(CANDIDATE_MODELS)
                          /\ loc[p].ai_reply = AI_UNAVAILABLE

\* The second model's response had no text attribute, after the first
\* model failed: the reply is its str(response), trimmed.
C10_Witness ==
    \E p \in Procs :
        /\ Done(p)
        /\ AskReturned(p)
        /\ Len(loc[p].attempts) = 2
        /\ ~LastAttempt(p).raises
        /\ ~LastAttempt(p).has_text
        /\ resp[p].body.reply = strip(LastAttempt(p).str)
        /\ resp[p].body.reply # LastAttempt(p).str

\* Every model that was tried failed: it raised, or gave nothing to return.
AllFailed(p) ==
    \A k \in 1..Len(loc[p].attempts) : ~Supplies(loc[p].attempts[k].response)

\* The value is a string (a sequence of characters or chunks).
IsText(v) == DOMAIN v = 1..Len(v)

\* C11: with a credential configured, whichever of the model calls fail,
\* ask_gemini_short returns a string to chatbot and the chat ends with
\* status 200, never with a fault; when every model of CANDIDATE_MODELS
\* failed, each was tried exactly once, in order, and the value returned is
\* the fixed "AI unavailable" message.
C11_NoFault ==
    \A p \in Procs :
        /\ (Done(p) /\ Asked(p)) =>
              /\ resp[p].status = 200
              /\ resp[p].body.reply = loc[p].ai_reply
        /\ AskReturned(p) => IsText(loc[p].ai_reply)
        /\ (AskReturned(p) /\ AllFailed(p)) =>
              /\ Len(loc[p].attempts) = Len(CANDIDATE_MODELS)
              /\ \A k \in 1..Len(CANDIDATE_MODELS) :
                    loc[p].attempts[k].model = CANDIDATE_MODELS[k]
              /\ loc[p].ai_reply = AI_UNAVAILABLE

\* All three models raised and the chat answered with the fixed message.
C11_Witness ==
    \E p \in Procs :
        /\ Done(p)
        /\ AskReturned(p)
        /\ Len(loc[p].attempts) = Len(CANDIDATE_MODELS)
        /\ \A k \in 1..Len(loc[p].attempts) : loc[p].attempts[k].response.raises
        /\ resp[p].status = 200
        /\ resp[p].body = Ai(AI_UNAVAILABLE)

\* No provider credential is set in the environment.
NoCredential == GEMINI_API_KEY = None \/ GEMINI_API_KEY = ""

\* C12: without a credential ask_gemini_short calls no model and returns the
\* fixed "not configured" message, so a chat whose (non-empty) message names
\* no product of the catalog answers source "ai" with that message.
C12_NotConfigured ==
    \A p \in Procs :
        NoCredential =>
            /\ loc[p].attempts = <<>>
            /\ (req[p].op = "chatbot" /\ pc[p] = "chat_return") =>
                  loc[p].ai_reply = AI_NOT_CONFIGURED
            /\ (ChatDone(p) /\ ~Named(strip(req[p].message))) =>
                  /\ AnsweredAi(p)
                  /\ resp[p].body = Ai(AI_NOT_CONFIGURED)

\* A chat naming no product was answered without a key.
C12_Witness ==
    \E p \in Procs :
        /\ NoCredential
        /\ ChatDone(p)
        /\ ~Named(req[p].message)
        /\ loc[p].ai_calls = 1
        /\ loc[p].attempts = <<>>
        /\ resp[p].body = Ai(AI_NOT_CONFIGURED)

\* C13: after any sequence of creates and updates with accepted request
\* bodies every record of the store has a non-empty name, a non-negative
\* price and a non-negative stock.
C13_ValidRecords ==
    \A k \in 1..Len(cakes_db) :
        /\ cakes_db[k].name # <<>>
        /\ cakes_db[k].price >= 0
        /\ cakes_db[k].stock >= 0

\* The sequence without its k-th element.
Without(db, k) == SubSeq(db, 1, k - 1) \o SubSeq(db, k + 1, Len(db))

\* What one step of get_cakes, add_cake, update_cake or delete_cake does to
\* the list and its order.
C14_Step ==
    \A p \in Procs :
        /\ (pc[p] = "list_iter" /\ pc'[p] = "idle") =>
              /\ resp'[p].status = 200
              /\ resp'[p].body = cakes_db
              /\ cakes_db' = cakes_db
        /\ (pc[p] = "add_append" /\ pc'[p] = "add_return") =>
              SubSeq(cakes_db', 1, Len(cakes_db)) = cakes_db
        /\ (pc[p] = "upd_replace" /\ pc'[p] = "upd_return") =>
              /\ Len(cakes_db') = Len(cakes_db)
              /\ \A k \in 1..Len(cakes_db) :
                    IF cakes_db[k].id = req[p].cake_id
                    THEN cakes_db'[k] = WithId(req[p].cake_id, req[p].cake)
                    ELSE cakes_db'[k] = cakes_db[k]
        /\ (pc[p] = "del_remove" /\ pc'[p] = "del_return") =>
              /\ \E k \in 1..Len(cakes_db) :
                    /\ cakes_db[k].id = req[p].cake_id
                    /\ cakes_db' = Without(cakes_db, k)
              /\ req[p].cake_id \notin IdsOf(cakes_db')
        /\ (pc[p] \in {"upd_return", "del_return"} /\ pc'[p] = "idle") =>
              /\ resp'[p].status = 200
              /\ cakes_db' = cakes_db

\* C14: in a sequential run get_cakes returns the whole store in its order,
\* which is the order of insertion because every operation keeps it: a
\* create appends, a successful update_cake(id) puts the new record at the
\* position of the old one, a successful delete_cake(id) takes out the
\* record with that id and nothing else, and both leave the records with
\* other ids as they were, in the same relative order.
C14_OrderKept == [][C14_Step]_vars

\* After delete_cake(1) and update_cake(2) the list holds the new record 2
\* alone.
C14_Witness ==
    \E p \in Procs :
        /\ Done(p)
        /\ req[p].op = "get_cakes"
        /\ resp[p].body = cakes_db
        /\ Len(cakes_db) = 1
        /\ cakes_db[1].id = 2
        /\ cakes_db[1] # InitialCakes[2]

\* The positions of the products whose lowercased name is in the lowercased
\* trimmed message.
MatchingPositions(p) ==
    { k \in 1..Len(cakes_db) :
        IsSubstring(lower(cakes_db[k].name), lower(strip(req[p].message))) }

\* The text contains the piece.
Embeds(text, piece) == IsSubstring(piece, text)

\* C15: in a sequential run a local reply describes the first product, in
\* catalog order, whose name is in the message, also when several are, and
\* its text carries that product's name, description, price and stock as
\* they are stored.
C15_FirstInCatalogOrder ==
    \A p \in Procs :
        (ChatDone(p) /\ MatchingPositions(p) # {}) =>
            LET k == CHOOSE m \in MatchingPositions(p) :
                        \A j \in MatchingPositions(p) : m <= j
                cake == cakes_db[k]
                reply == resp[p].body.reply
            IN  /\ AnsweredLocal(p)
                /\ loc[p].i = k
                /\ reply = LocalReply(cake)
                /\ Embeds(reply, cake.name)
                /\ Embeds(reply, <<cake.description>>)
                /\ Embeds(reply, <<ToString(cake.price), ".0">>)
                /\ Embeds(reply, <<ToString(cake.stock), " sht.">>)

\* Two products match (both have the empty name) and the first of them is
\* not the first of the catalog: the reply describes it.
C15_Witness ==
    \E p \in Procs :
        /\ ChatDone(p)
        /\ AnsweredLocal(p)
        /\ MatchingPositions(p) = {2, 3}
        /\ cakes_db[2] # cakes_db[3]
        /\ resp[p].body.reply = LocalReply(cakes_db[2])

\* The message of p's chat request is empty or only whitespace.
BlankChat(p) ==
    /\ req[p].op = "chatbot"
    /\ \A k \in 1..Len(req[p].message) : req[p].message[k] \in Whitespace

\* A step of a chat request leaves the store alone; a blank message is
\* answered in the step that takes it.
C16_Step ==
    \A p \in Procs :
        /\ (req'[p].op = "chatbot" /\ (pc[p] # "idle" \/ started' # started)) =>
              cakes_db' = cakes_db
        /\ BlankChat(p)' =>
              /\ pc'[p] = "idle"
              /\ resp'[p].status = 400
              /\ resp'[p].body = EMPTY_MESSAGE
              /\ loc'[p].i = 0
              /\ loc'[p].ai_calls = 0
              /\ loc'[p].attempts = <<>>

\* C16: a chat whose message is empty or only whitespace ends at once with
\* 400 "empty message": the catalog is not scanned (no item is taken), the
\* AI client is not called and no model is tried; and no step of any chat
\* request changes the store.
C16_EmptyMessage == [][C16_Step]_vars

\* A whitespace-only message was refused.
C16_Witness ==
    \E p \in Procs :
        /\ Done(p)
        /\ BlankChat(p)
        /\ req[p].message # <<>>
        /\ resp[p].status = 400
        /\ loc[p].i = 0
        /\ loc[p].ai_calls = 0

\* A write request of p is in progress.
InProgress(p) == pc[p] # "idle"

\* The request of p has completed with a result or with NotFound, and p does
\* not hold the lock.
Completed(p) ==
    /\ Done(p)
    /\ resp[p].status \in {200, 201, 404}
    /\ db_lock # p

\* C17: with concurrent creates, updates and deletes and weak fairness of
\* each request, every request in progress eventually completes (with a
\* result or NotFound) and does not hold _db_lock once it has; while some
\* request is in progress some request can take a step (no deadlock); and
\* the lock is free whenever no request is in progress.
C17_Completes ==
    /\ \A p \in ConcProcs : InProgress(p) ~> Completed(p)
    /\ []((\E p \in ConcProcs : InProgress(p)) =>
              ENABLED <<\E p \in ConcProcs : Serve(p)>>_vars)
    /\ []((\A p \in Procs : ~InProgress(p)) => db_lock = 0)

\* Both threads have completed a write, one of them an update that found its
\* record and the other a create, and the lock is free.
C17_Witness ==
    /\ \A p \in ConcProcs : Completed(p)
    /\ \E p, q \in ConcProcs :
          /\ req[p].op = "update_cake" /\ resp[p].status = 200
          /\ req[q].op = "add_cake" /\ resp[q].status = 201
    /\ started = MaxRequests
    /\ db_lock = 0
====
